---------------------------- MODULE Spec2Model ----------------------------
(***************************************************************************)
(* Bulk food-name translators of libretranslate-railway.                   *)
(*                                                                         *)
(* Spec      : one script (the variant) run, interrupted and restarted     *)
(*             against the foods table, the ingredient_translations table, *)
(*             the translation endpoint and the checkpoint file.  A step   *)
(*             is one remote call together with the local code that        *)
(*             follows it up to the next remote call; a translate_text     *)
(*             call, retries included, is one step.                        *)
(* SpecCalls : the translate_text calls of one page taken apart, one step  *)
(*             per await: entering a frame (in ultra_fast, taking a permit *)
(*             of translation_semaphore), the HTTP exchange, the backoff.  *)
(* SpecTasks : the coroutines that bulk_translate_foods, optimized and      *)
(*             ultra_fast gather for one page, on the one thread of the    *)
(*             event loop: their semaphores, their requests in flight and  *)
(*             the loads and stores of their counter increments.           *)
(* SpecProxy : the proxy server translate_api handling requests: the       *)
(*             primary translation service, the secondary one, the answer. *)
(* SpecClock : the time tracking of enhanced and ultra_fast: the clock,     *)
(*             session_start_time and the total_compute_time of the        *)
(*             progress file over writes, interrupts and restarts.         *)
(*                                                                         *)
(* The remote services are the environment: each call either answers or    *)
(* fails, chosen nondeterministically.  In Spec the number of failures of  *)
(* one behaviour is bounded by MaxFaults.                                  *)
(***************************************************************************)
EXTENDS Integers, Sequences, FiniteSets, TLC

(***************************************************************************)
(* Bounds of the model.  The page sizes, the row limit of the count query  *)
(* and the testing caps are scaled down from the values in the scripts;    *)
(* their ratios (a limit is a whole number of pages) are kept.             *)
(***************************************************************************)
\* rows of one page: BATCH_SIZE / batch_size of the scripts (10, 50 or 100)
BATCH_SIZE == 2
\* pages covered by the row limit of the count query (10000 rows in the scripts)
CountPages == 2
\* pages after which simple_bulk and fixed_bulk stop in testing mode
TestPages == 2
\* largest foods table
MaxFoods == 5
\* processes started in one behaviour (the first run and the restarts)
MaxRuns == 2

\* failures of the remote services in one behaviour: requests that fail and
\* translate_text calls that come back without a translation
MaxFaults == 1

\* permits of the page semaphore of bulk_translate_foods (MAX_CONCURRENT, 5)
MAX_CONCURRENT == 2

\* permits of translation_semaphore of ultra_fast (20 in the script); one call
\* nests at most ULTRA_RETRIES + 1 acquisitions, which the permits cover
MAX_CONCURRENT_TRANSLATIONS == 3
\* translate_text calls of one gather in SpecCalls
PageCalls == 2

\* ticks of the clock in SpecClock
MaxTime == 5

\* MAX_RETRIES of optimized, simple_optimized and enhanced
MAX_RETRIES == 3
\* the literal bound of `retries < 2` in ultra_fast
ULTRA_RETRIES == 2

Variants ==
    {"simple_bulk", "fixed_bulk", "bulk_translate_foods", "simple_optimized",
     "optimized", "enhanced", "ultra_fast"}

\* scripts that keep a checkpoint file
Checkpointing == {"simple_optimized", "optimized", "enhanced", "ultra_fast"}

\* scripts whose translate_text retries
Retrying == {"simple_optimized", "optimized", "enhanced", "ultra_fast"}

\* scripts that process a page one pair after the other
Sequential == {"simple_bulk", "fixed_bulk", "simple_optimized", "enhanced"}

\* scripts whose count query fetches up to 10000 ids and counts them
CountByRows == {"simple_optimized", "optimized", "enhanced"}

\* target locales (two of the three, in two scripts nine, of the scripts)
LANGUAGES == <<"es", "de">>

Langs == 1..Len(LANGUAGES)

\* the row limit of the count query
COUNT_LIMIT == CountPages * BATCH_SIZE

\* the offset at which the testing mode of simple_bulk / fixed_bulk stops
TEST_LIMIT == TestPages * BATCH_SIZE

(***************************************************************************)
(* Texts.  The name of food i is <<i, "en">>; its translation to locale l  *)
(* is <<i, l>>.                                                            *)
(***************************************************************************)
Name(i) == <<i, "en">>

\* the id of food i, as the foods table and ingredient_id hold it
FoodId(i) == <<"id", i>>

Translation(text, lang) == <<text[1], lang>>

\* no text yet
NoText == <<>>

\* the checkpoint file: absent, present but not a JSON object, or the JSON
\* object save_progress wrote
NoFile == [kind |-> "none"]

Corrupt == [kind |-> "corrupt"]

\* a checkpoint file that holds JSON which is no object (a list, a number)
NotObject == [kind |-> "array"]

\* no process ran before
NoRun == [done |-> FALSE, table |-> <<>>]

\* no coroutine
NoOne == <<>>

\* no request is being handled
NoRequest == [path |-> "none"]

\* no answer yet
NoBody == [none |-> TRUE]

\* the three counters at 0
NoCounts == [translated |-> 0, failed |-> 0, skipped |-> 0]

VARIABLES
    variant,            \* the script
    nFoods,             \* rows of the foods table (ordered by name: 1..nFoods)
    translations,       \* ingredient_translations: key -> names of its rows
    ckpt,               \* the checkpoint file: NoFile, Corrupt or the record
    runs,               \* processes started so far
    faults,             \* failures of the remote services so far
    pc,                 \* where the running process is
    translated_count, failed_count, skipped_count,
    processed_foods, total_foods, offset,
    page,               \* the page being processed (food indexes)
    tasks,              \* per pair of the page: what has been done for it
    \* history of the run, read by the properties only
    resumedFrom,        \* the checkpoint load_progress restored, or NoFile
    startOffset,        \* offset at the start of the page loop
    lastFetch,          \* "none", "rows", "empty" or "failed"
    fetched,            \* foods rows fetched by get_foods_batch in this run
    fetchFailed,        \* some page fetch of this run failed
    pagesDone,          \* non-empty pages completed in this run
    ckptWrites,         \* save_progress calls of this run
    attemptedRun,       \* pairs whose per-item step ended in this run
    everAttempted,      \* pairs whose per-item step ended in some run
    preexisting,        \* keys that had a row when the run started
    pageBase,           \* the three counters when the page was fetched
    previous,           \* the process before this one: its end and its table
    foodsBefore,        \* rows of the foods table before the first process
    requested,          \* <<target, method>> of the requests sent so far
    \* SpecCalls: the translate_text calls of one page, step by step
    calls,              \* call -> its frame and what it has done
    permits,            \* free permits of translation_semaphore
    \* SpecTasks: the coroutines of one page on the event loop
    coros,              \* coroutine -> where it is and what it holds
    sems,               \* semaphore -> its free permits
    running,            \* the coroutine inside a statement, or NoOne
    added,              \* what the executed increments added to each counter
    \* SpecProxy: the proxy server translate_api handling requests
    request,            \* the request being handled, or NoRequest
    handler,            \* "idle", "primary", "secondary", "answered", "crashed"
    upstream,           \* the services called for the request, with outcomes
    body,               \* the body of the answer, or NoBody
    served,             \* requests answered so far
    \* SpecClock: the time tracking of save_progress and load_progress
    now,                \* time.time(), in ticks
    session,            \* "running", "stopped", or "none" outside SpecClock
    session_start_time, \* self.session_start_time
    progress,           \* the progress file: NoFile or what save_progress wrote
    spent               \* ticks that passed while a process was running

vars ==
    <<variant, nFoods, translations, ckpt, runs, faults, pc,
      translated_count, failed_count, skipped_count, processed_foods, total_foods, offset, page,
      tasks, resumedFrom, startOffset, lastFetch, fetched, fetchFailed,
      pagesDone, ckptWrites, attemptedRun, everAttempted, preexisting,
      pageBase, previous, foodsBefore, requested, calls, permits, coros, sems, running, added,
      request, handler, upstream, body, served,
      now, session, session_start_time, progress, spent>>

callVars == <<calls, permits>>

taskVars == <<coros, sems, running, added>>

proxyVars == <<request, handler, upstream, body, served>>

clockVars == <<now, session, session_start_time, progress, spent>>

Keys == (1..MaxFoods) \X Langs

\* sizes of the foods table: empty, one full page, a short last page, and the
\* largest table, which exceeds the row limit of the count query
FoodCounts == {0, BATCH_SIZE, BATCH_SIZE + 1, MaxFoods}


(***************************************************************************)
(* translate_text.  One HTTP exchange ends in one of these ways.           *)
(***************************************************************************)
RespKinds ==
    {"transport_error", "timeout", "non200", "malformed", "nofield", "echo",
     "translated"}

\* 200 answers whose body parses as a JSON object
Parsed == {"nofield", "echo", "translated"}

\* 200 answers that carry a translatedText
WithText == {"echo", "translated"}

\* result.get("translatedText", text) of a parsed 200 answer
Answer(text, lang, r) ==
    IF r = "translated" THEN Translation(text, lang) ELSE text

MaxRetries(v) ==
    IF v = "ultra_fast" THEN ULTRA_RETRIES
    ELSE IF v \in Retrying THEN MAX_RETRIES
    ELSE 0

\* HTTP attempts one call can make
MaxAttempts(v) == MaxRetries(v) + 1

\* the sleep before the retry that follows attempt number retries + 1, in
\* half seconds: 1 * (retries + 1) s, in ultra_fast 0.5 * (retries + 1) s
Backoff(v, retries) ==
    IF v = "ultra_fast" THEN retries + 1 ELSE 2 * (retries + 1)

\* resps[n] is the outcome of the n-th HTTP exchange of the call
RECURSIVE translate_text(_, _, _, _, _)
translate_text(v, text, lang, resps, retries) ==
    LET r == resps[retries + 1] IN
    IF r \in Parsed
    THEN [text |-> Answer(text, lang, r), attempts |-> retries + 1,
          obtained |-> r \in WithText, exhausted |-> FALSE, sleeps |-> <<>>]
    ELSE IF v \in Retrying /\ retries < MaxRetries(v)
    THEN LET rest == translate_text(v, text, lang, resps, retries + 1) IN
         [rest EXCEPT !.sleeps = <<Backoff(v, retries)>> \o rest.sleeps]
    ELSE [text |-> text, attempts |-> retries + 1, obtained |-> FALSE,
          exhausted |-> v \in Retrying, sleeps |-> <<>>]

\* k failed exchanges followed by exchanges that end as final
RespsAfter(v, k, final) ==
    [n \in 1..MaxAttempts(v) |-> IF n <= k THEN "transport_error" ELSE final]

(***************************************************************************)
(* The data API.                                                           *)
(***************************************************************************)
\* GET foods?offset=&limit=&order=name
FoodsPage(off, limit) ==
    [j \in 1..(IF off >= nFoods THEN 0
               ELSE IF off + limit <= nFoods THEN limit
               ELSE nFoods - off) |-> off + j]

\* what a request does to the rows of the foods table: a read leaves them,
\* a POST adds a row
FoodsAfter(method, n) ==
    IF method = "GET" \/ n >= MaxFoods THEN n ELSE n + 1

\* a script that writes to the foods table
FoodsWritten(v) == "POST"

\* the method of get_foods_batch and get_total_food_count
FoodsMethod(v) == "GET"

\* POST ingredient_translations: with resolution=merge-duplicates the rows of
\* the key are replaced, without it a row is added
Post(tbl, key, name, prefer) ==
    IF prefer = "resolution=merge-duplicates" /\ Len(tbl[key]) > 0
    THEN [tbl EXCEPT ![key] = [j \in 1..Len(tbl[key]) |-> name]]
    ELSE [tbl EXCEPT ![key] = Append(tbl[key], name)]

\* GET ingredient_translations?ingredient_id=eq.&locale=eq.: len(data) > 0
HasRow(tbl, key) == Len(tbl[key]) > 0

\* a POST without the merge directive
PlainInsert(v) == "return=minimal"

\* the Prefer header of save_translation / save_translations_batch
SavePrefer(v) == "resolution=merge-duplicates"


(***************************************************************************)
(* The per-item step: check-existing -> (skip | translate -> upsert).      *)
(* A task is the record of one (food, locale) pair of the current page:    *)
(*   chk  what the existence check returned ("todo" before it)             *)
(*   tr   the text translate_text returned (NoText before it)              *)
(*   exh  the translation gave up after its last retry                     *)
(*   up   how the upsert ended ("todo" before it)                          *)
(*   cnt  the counter the pair was counted in ("none" before it)           *)
(***************************************************************************)
NewTask ==
    [chk |-> "todo", tr |-> NoText, exh |-> FALSE, up |-> "todo", cnt |-> "none"]

PageKeys(pg) == {<<pg[j], l>> : j \in 1..Len(pg), l \in Langs}

\* the order in which the loops of the scripts visit the pairs of a page
Before(a, b) == a[1] < b[1] \/ (a[1] = b[1] /\ a[2] < b[2])

\* a comparison that takes every returned text for a translation
DiffersAlways(t, key) == t.tr # NoText

\* translated_name != food_name
Differs(t, key) == t.tr # NoText /\ t.tr # Name(key[1])

\* the per-item step without its two conditions: every pair is translated and
\* every returned text is saved
StageUnconditional(t, key) ==
    IF t.chk = "todo" THEN "check"
    ELSE IF t.tr = NoText THEN "translate"
    ELSE IF t.up = "todo" THEN "save"
    ELSE "done"

Stage(t, key) ==
    IF t.chk = "todo" THEN "check"
    ELSE IF t.chk = "present" THEN "done"
    ELSE IF t.tr = NoText THEN "translate"
    ELSE IF Differs(t, key) /\ t.up = "todo" THEN "save"
    ELSE "done"

StageOf(key) == Stage(tasks[key], key)

AllDone == \A k \in DOMAIN tasks : StageOf(k) = "done"

\* the pair a sequential script is at
IsCurrent(key) ==
    /\ StageOf(key) # "done"
    /\ \A k \in DOMAIN tasks : Before(k, key) => StageOf(k) = "done"

\* tasks of bulk_translate_foods that hold a permit of the page's semaphore
Running(ts) == {k \in DOMAIN ts : ts[k].chk # "todo" /\ Stage(ts[k], k) # "done"}

Counters == [translated |-> translated_count, failed |-> failed_count,
             skipped |-> skipped_count]

IsRecord(f) == f.kind = "json"


\* the answers a request can get: it fails only within the budget of failures
Outcomes == IF faults < MaxFaults THEN {TRUE, FALSE} ELSE {TRUE}

\* the budget after a request that was answered (ok) or failed
Charge(ok) == IF ok THEN faults ELSE faults + 1

(***************************************************************************)
(* A process: construction, start-up, the page loop, the end.              *)
(***************************************************************************)
Live == {"api_test", "count", "loop", "page", "saved", "after"}

Ended == {"done", "aborted", "interrupted", "killed", "crashed"}

\* the error load_progress runs into with the file: json.load raises on a
\* file that is no JSON, progress.get on JSON that is no object
LoadError(file) ==
    IF file.kind = "corrupt" THEN "JSONDecodeError"
    ELSE IF file.kind = "array" THEN "AttributeError"
    ELSE "none"

\* an except clause for the errors of the parser only
LoadCaughtDecode == {"none", "JSONDecodeError"}

\* `except Exception` of load_progress
LoadCaught == {"none", "JSONDecodeError", "AttributeError", "OSError"}

\* __init__ followed by load_progress: the counters start at 0 and are
\* restored from a checkpoint that parses
Construct(file) ==
    LET rec == IF variant \in Checkpointing /\ IsRecord(file) THEN file
               ELSE [kind |-> "json", processed_foods |-> 0,
                     translated_count |-> 0, failed_count |-> 0,
                     skipped_count |-> 0]
    IN  /\ processed_foods' = rec.processed_foods
        /\ translated_count' = rec.translated_count
        /\ failed_count' = rec.failed_count
        /\ skipped_count' = rec.skipped_count
        /\ total_foods' = 0
        /\ offset' = 0
        /\ page' = <<>>
        /\ tasks' = <<>>
        /\ pc' = IF variant \in Checkpointing /\ LoadError(file) \notin LoadCaught
                 THEN "crashed" ELSE "api_test"
        /\ resumedFrom' =
             IF variant \in Checkpointing /\ IsRecord(file) THEN file ELSE NoFile
        /\ startOffset' = 0
        /\ lastFetch' = "none"
        /\ fetched' = {}
        /\ fetchFailed' = FALSE
        /\ pagesDone' = 0
        /\ ckptWrites' = 0
        /\ attemptedRun' = {}
        /\ pageBase' = [translated |-> rec.translated_count,
                        failed |-> rec.failed_count,
                        skipped |-> rec.skipped_count]

Init ==
    /\ variant \in Variants
    /\ nFoods \in FoodCounts
    /\ \E pre \in {{}, {<<1, 1>>}} :
         /\ translations =
              [k \in Keys |-> IF k \in pre THEN <<<<k[1], "old">>>> ELSE <<>>]
         /\ preexisting = pre
    /\ ckpt \in (IF variant \in Checkpointing THEN {NoFile, Corrupt, NotObject}
                 ELSE {NoFile})
    /\ runs = 1
    /\ faults = 0
    /\ pc = "api_test"
    /\ translated_count = 0
    /\ failed_count = 0
    /\ skipped_count = 0
    /\ processed_foods = 0
    /\ total_foods = 0
    /\ offset = 0
    /\ page = <<>>
    /\ tasks = <<>>
    /\ resumedFrom = NoFile
    /\ startOffset = 0
    /\ lastFetch = "none"
    /\ fetched = {}
    /\ fetchFailed = FALSE
    /\ pagesDone = 0
    /\ ckptWrites = 0
    /\ attemptedRun = {}
    /\ everAttempted = {}
    /\ pageBase = [translated |-> 0, failed |-> 0, skipped |-> 0]
    /\ previous = NoRun
    /\ foodsBefore = nFoods
    /\ requested = {}
    /\ calls = <<>>
    /\ permits = 0
    /\ coros = <<>>
    /\ sems = <<>>
    /\ running = NoOne
    /\ added = NoCounts
    /\ request = NoRequest
    /\ handler = "idle"
    /\ upstream = <<>>
    /\ body = NoBody
    /\ served = 0
    /\ now = 0
    /\ session = "none"
    /\ session_start_time = 0
    /\ progress = NoFile
    /\ spent = 0

\* the process is started again after it ended
Restart ==
    /\ pc \in Ended
    /\ runs < MaxRuns
    /\ runs' = runs + 1
    /\ Construct(ckpt)
    /\ preexisting' = {k \in Keys : HasRow(translations, k)}
    /\ previous' = [done |-> pc = "done", table |-> translations]
    /\ UNCHANGED <<foodsBefore, requested, callVars, taskVars, proxyVars, clockVars, variant, nFoods, translations, ckpt, faults, everAttempted>>

\* the positions inside the try block around the page loop
InLoop == {"loop", "page", "saved"}

\* how a keyboard interrupt ends the process: "interrupted" when the
\* `except KeyboardInterrupt` clause of run printed the partial statistics
\* and returned, "killed" when the interrupt left the process without it.
\* enhanced runs its loop synchronously inside the try block.  ultra_fast
\* runs it in a coroutine under asyncio.run, where the interrupt reaches the
\* coroutine as a cancellation unless it arrives inside a synchronous call
\* of an interpreter that raises it there.  The other scripts have no clause.
InterruptEnds(v, at) ==
    IF at \notin InLoop THEN {"killed"}
    ELSE IF v = "enhanced" THEN {"interrupted"}
    ELSE IF v = "ultra_fast" THEN {"interrupted", "killed"}
    ELSE {"killed"}

\* a keyboard interrupt ends the process where it is; nothing is cleaned up
Interrupt ==
    /\ pc \in Live
    /\ pc' \in InterruptEnds(variant, pc)
    /\ UNCHANGED <<foodsBefore, requested, previous, callVars, taskVars, proxyVars, clockVars, variant, nFoods, translations, ckpt, runs, faults, translated_count,
                   failed_count, skipped_count, processed_foods, total_foods,
                   offset, page, tasks, resumedFrom, startOffset, lastFetch,
                   fetched, fetchFailed, pagesDone, ckptWrites, attemptedRun,
                   everAttempted, preexisting, pageBase>>

\* GET RAILWAY_API_URL; simple_bulk enters its loop right after it
TestApi ==
    /\ pc = "api_test"
    /\ \E ok \in Outcomes :
         /\ faults' = Charge(ok)
         /\ pc' = IF ~ok THEN "aborted"
                  ELSE IF variant = "simple_bulk" THEN "loop" ELSE "count"
    /\ requested' = requested \cup {<<"api", "GET">>}
    /\ UNCHANGED <<foodsBefore, previous, callVars, taskVars, proxyVars, clockVars, variant, nFoods, translations, ckpt, runs, translated_count,
                   failed_count, skipped_count, processed_foods, total_foods,
                   offset, page, tasks, resumedFrom, startOffset, lastFetch,
                   fetched, fetchFailed, pagesDone, ckptWrites, attemptedRun,
                   everAttempted, preexisting, pageBase>>

\* what the count query yields when it is answered
CountOf(v) ==
    IF v \in CountByRows /\ nFoods >= COUNT_LIMIT THEN COUNT_LIMIT ELSE nFoods

\* a page loop that starts at the first row
OffsetZero(v) == 0

\* a start that skips the page after the stored progress
OffsetBehind(v) ==
    IF v \in Checkpointing THEN processed_foods + BATCH_SIZE ELSE 0

\* the offset the page loop starts at
FirstOffset(v) == IF v \in Checkpointing THEN processed_foods ELSE 0

\* get_total_food_count, the `No foods found` return and the loop's start
GetTotal ==
    /\ pc = "count"
    /\ \E ok \in Outcomes :
         /\ faults' = Charge(ok)
         /\ total_foods' = IF ok THEN CountOf(variant) ELSE 0
         /\ nFoods' = IF ok THEN FoodsAfter(FoodsMethod(variant), nFoods)
                      ELSE nFoods
    /\ IF total_foods' = 0
       THEN pc' = "aborted" /\ UNCHANGED <<offset, startOffset>>
       ELSE /\ pc' = "loop"
            /\ offset' = FirstOffset(variant)
            /\ startOffset' = offset'
    /\ requested' = requested \cup {<<"foods", FoodsMethod(variant)>>}
    /\ UNCHANGED <<foodsBefore, previous, callVars, taskVars, proxyVars, clockVars, variant, translations, ckpt, runs, translated_count,
                   failed_count, skipped_count, processed_foods, page, tasks,
                   resumedFrom, lastFetch, fetched, fetchFailed, pagesDone,
                   ckptWrites, attemptedRun, everAttempted, preexisting,
                   pageBase>>

\* the condition of the while loop
LoopCond(v) == v = "simple_bulk" \/ offset < total_foods

\* while offset < total_foods: the condition is false
LoopExit ==
    /\ pc = "loop"
    /\ ~LoopCond(variant)
    /\ pc' = "after"
    /\ UNCHANGED <<foodsBefore, requested, previous, callVars, taskVars, proxyVars, clockVars, variant, nFoods, translations, ckpt, runs, faults, translated_count,
                   failed_count, skipped_count, processed_foods, total_foods,
                   offset, page, tasks, resumedFrom, startOffset, lastFetch,
                   fetched, fetchFailed, pagesDone, ckptWrites, attemptedRun,
                   everAttempted, preexisting, pageBase>>

\* get_foods_batch(offset, BATCH_SIZE) and `if not foods: break`
FetchPage ==
    /\ pc = "loop"
    /\ LoopCond(variant)
    /\ \E ok \in Outcomes :
         /\ faults' = Charge(ok)
         /\ page' = IF ok THEN FoodsPage(offset, BATCH_SIZE) ELSE <<>>
         /\ lastFetch' = IF ~ok THEN "failed"
                         ELSE IF page' = <<>> THEN "empty" ELSE "rows"
         /\ fetchFailed' = (fetchFailed \/ ~ok)
         /\ nFoods' = IF ok THEN FoodsAfter(FoodsMethod(variant), nFoods)
                      ELSE nFoods
    /\ fetched' = fetched \cup {page'[j] : j \in 1..Len(page')}
    /\ tasks' = [k \in PageKeys(page') |-> NewTask]
    /\ pc' = IF page' = <<>> THEN "after" ELSE "page"
    /\ pageBase' = Counters
    /\ requested' = requested \cup {<<"foods", FoodsMethod(variant)>>}
    /\ UNCHANGED <<foodsBefore, previous, callVars, taskVars, proxyVars, clockVars, variant, translations, ckpt, runs, translated_count,
                   failed_count, skipped_count, processed_foods, total_foods,
                   offset, resumedFrom, startOffset, pagesDone, ckptWrites,
                   attemptedRun, everAttempted, preexisting>>


(***************************************************************************)
(* The steps of a page.                                                    *)
(***************************************************************************)
\* when the script may issue the next call for the pair
Scheduled(v, key) ==
    CASE v \in Sequential -> IsCurrent(key)
      [] v = "bulk_translate_foods" ->
            \* limited_task: the tasks take the permits in the order of the list
            \/ tasks[key].chk # "todo"
            \/ /\ \A k \in DOMAIN tasks : Before(k, key) => tasks[k].chk # "todo"
               /\ Cardinality(Running(tasks)) < MAX_CONCURRENT
      [] v = "ultra_fast" ->
            \* the checks one after the other, then the gather of the
            \* translations, then the gather of the saves
            CASE StageOf(key) = "check" ->
                    \A k \in DOMAIN tasks : Before(k, key) => tasks[k].chk # "todo"
              [] StageOf(key) = "translate" ->
                    \A k \in DOMAIN tasks : tasks[k].chk # "todo"
              [] OTHER ->
                    \A k \in DOMAIN tasks : StageOf(k) \in {"save", "done"}
      [] OTHER ->
            \* optimized: the gather of the translations follows the batch check
            /\ StageOf(key) = "translate"
            /\ \A k \in DOMAIN tasks : tasks[k].chk # "todo"

\* a counting of present pairs that leaves enhanced out
CountsPresentElsewhere == {"fixed_bulk", "simple_optimized"}

\* scripts that count a pair found present in self.skipped_count at once
CountsPresent == {"fixed_bulk", "simple_optimized", "enhanced"}

\* scripts that count the outcome of an upsert at once
CountsSave == Variants \ {"ultra_fast", "optimized"}

Ends(ts, key) ==
    IF Stage(ts[key], key) = "done" THEN {key} ELSE {}

\* check_existing_translation: True when the request is answered with rows
CheckResult(ok, key) ==
    IF ok /\ HasRow(translations, key) THEN "present" ELSE "absent"

Check(key) ==
    /\ pc = "page"
    /\ variant # "optimized"
    /\ StageOf(key) = "check"
    /\ Scheduled(variant, key)
    /\ \E ok \in Outcomes :
         /\ faults' = Charge(ok)
         /\ tasks' = [tasks EXCEPT
                         ![key].chk = CheckResult(ok, key),
                         ![key].cnt = IF /\ CheckResult(ok, key) = "present"
                                         /\ variant \in CountsPresent
                                      THEN "skipped" ELSE "none"]
    /\ skipped_count' =
         IF tasks'[key].cnt = "skipped" THEN skipped_count + 1 ELSE skipped_count
    /\ attemptedRun' = attemptedRun \cup Ends(tasks', key)
    /\ everAttempted' = everAttempted \cup Ends(tasks', key)
    /\ requested' = requested \cup {<<"ingredient_translations", "GET">>}
    /\ UNCHANGED <<foodsBefore, previous, callVars, taskVars, proxyVars, clockVars, variant, nFoods, translations, ckpt, runs, pc,
                   translated_count, failed_count, processed_foods, total_foods,
                   offset, page, resumedFrom, startOffset, lastFetch, fetched,
                   fetchFailed, pagesDone, ckptWrites, preexisting, pageBase>>

\* the values of the in.( ) filter that check_existing_translations builds
InFilter(food_ids) == {<<"eq.", id[2]>> : id \in food_ids}

\* optimized: one query for the whole page; existing.get(food['id'], [])
CheckBatch ==
    /\ pc = "page"
    /\ variant = "optimized"
    /\ \A k \in DOMAIN tasks : tasks[k].chk = "todo"
    /\ \E ok \in Outcomes :
         /\ faults' = Charge(ok)
         /\ LET filter == InFilter({FoodId(page[j]) : j \in 1..Len(page)})
                existing == IF ok
                            THEN {k \in Keys : /\ HasRow(translations, k)
                                               /\ FoodId(k[1]) \in filter}
                            ELSE {}
            IN  tasks' = [k \in DOMAIN tasks |->
                            [tasks[k] EXCEPT !.chk = IF k \in existing
                                                     THEN "present" ELSE "absent"]]
    /\ attemptedRun' = attemptedRun \cup {k \in DOMAIN tasks : Ends(tasks', k) # {}}
    /\ everAttempted' = everAttempted \cup {k \in DOMAIN tasks : Ends(tasks', k) # {}}
    /\ requested' = requested \cup {<<"ingredient_translations", "GET">>}
    /\ UNCHANGED <<foodsBefore, previous, callVars, taskVars, proxyVars, clockVars, variant, nFoods, translations, ckpt, runs, pc,
                   translated_count, failed_count, skipped_count,
                   processed_foods, total_foods, offset, page, resumedFrom,
                   startOffset, lastFetch, fetched, fetchFailed, pagesDone,
                   ckptWrites, preexisting, pageBase>>

Translate(key) ==
    /\ pc = "page"
    /\ StageOf(key) = "translate"
    /\ Scheduled(variant, key)
    /\ \E final \in RespKinds :
         LET res == translate_text(variant, Name(key[1]), LANGUAGES[key[2]],
                                   RespsAfter(variant, 0, final), 0)
         IN  /\ res.text # Name(key[1]) \/ faults < MaxFaults
             /\ faults' = Charge(res.text # Name(key[1]))
             /\ tasks' = [tasks EXCEPT
                             ![key].tr = res.text,
                             ![key].exh = res.exhausted,
                             ![key].cnt = IF /\ variant = "enhanced"
                                             /\ res.text = Name(key[1])
                                          THEN "skipped" ELSE "none"]
    /\ skipped_count' =
         IF tasks'[key].cnt = "skipped" THEN skipped_count + 1 ELSE skipped_count
    /\ attemptedRun' = attemptedRun \cup Ends(tasks', key)
    /\ everAttempted' = everAttempted \cup Ends(tasks', key)
    /\ requested' = requested \cup {<<"translate", "POST">>}
    /\ UNCHANGED <<foodsBefore, previous, callVars, taskVars, proxyVars, clockVars, variant, nFoods, translations, ckpt, runs, pc,
                   translated_count, failed_count, processed_foods, total_foods,
                   offset, page, resumedFrom, startOffset, lastFetch, fetched,
                   fetchFailed, pagesDone, ckptWrites, preexisting, pageBase>>

\* save_translation: POST with the Prefer header; True on 200 / 201
Save(key) ==
    /\ pc = "page"
    /\ variant # "optimized"
    /\ StageOf(key) = "save"
    /\ Scheduled(variant, key)
    /\ \E ok \in Outcomes :
         /\ faults' = Charge(ok)
         /\ translations' =
              IF ok THEN Post(translations, key, tasks[key].tr, SavePrefer(variant))
              ELSE translations
         /\ tasks' = [tasks EXCEPT
                         ![key].up = IF ok THEN "ok" ELSE "fail",
                         ![key].cnt = IF variant \notin CountsSave THEN "none"
                                      ELSE IF ok THEN "translated" ELSE "failed"]
    /\ translated_count' =
         IF tasks'[key].cnt = "translated"
         THEN translated_count + 1 ELSE translated_count
    /\ failed_count' =
         IF tasks'[key].cnt = "failed" THEN failed_count + 1 ELSE failed_count
    /\ attemptedRun' = attemptedRun \cup {key}
    /\ everAttempted' = everAttempted \cup {key}
    /\ requested' = requested \cup {<<"ingredient_translations", "POST">>}
    /\ UNCHANGED <<foodsBefore, previous, callVars, taskVars, proxyVars, clockVars, variant, nFoods, ckpt, runs, pc, skipped_count,
                   processed_foods, total_foods, offset, page, resumedFrom,
                   startOffset, lastFetch, fetched, fetchFailed, pagesDone,
                   ckptWrites, preexisting, pageBase>>


\* optimized, process_batch after the gather: the results are counted, then
\* the translations are saved with one POST
SaveBatch ==
    /\ pc = "page"
    /\ variant = "optimized"
    /\ \A k \in DOMAIN tasks : StageOf(k) \in {"save", "done"}
    /\ LET saving == {k \in DOMAIN tasks : Differs(tasks[k], k)}
           present == {k \in DOMAIN tasks : tasks[k].chk = "present"}
           failing == DOMAIN tasks \ (saving \cup present)
       IN  /\ translated_count' = translated_count + Cardinality(saving)
           /\ skipped_count' = skipped_count + Cardinality(present)
           /\ failed_count' = failed_count + Cardinality(failing)
           /\ \E ok \in Outcomes :
                /\ ok \/ saving # {}
                /\ faults' = Charge(ok)
                /\ translations' =
                     [k \in Keys |->
                        IF ok /\ k \in saving
                        THEN Post(translations, k, tasks[k].tr,
                                  SavePrefer(variant))[k]
                        ELSE translations[k]]
                /\ tasks' =
                     [k \in DOMAIN tasks |->
                        IF k \in saving
                        THEN [tasks[k] EXCEPT !.up = IF ok THEN "ok" ELSE "fail",
                                              !.cnt = "translated"]
                        ELSE IF k \in present
                        THEN [tasks[k] EXCEPT !.cnt = "skipped"]
                        ELSE [tasks[k] EXCEPT !.cnt = "failed"]]
           /\ attemptedRun' = attemptedRun \cup saving
           /\ everAttempted' = everAttempted \cup saving
    /\ pc' = "saved"
    /\ requested' =
         requested \cup {<<"ingredient_translations", "POST">> :
                            k \in {j \in DOMAIN tasks : Differs(tasks[j], j)}}
    /\ UNCHANGED <<foodsBefore, previous, callVars, taskVars, proxyVars, clockVars, variant, nFoods, ckpt, runs, processed_foods, total_foods,
                   offset, page, resumedFrom, startOffset, lastFetch, fetched,
                   fetchFailed, pagesDone, ckptWrites, preexisting, pageBase>>

\* the entry of the results dictionary of process_food_batch of ultra_fast
\* that counts the pair
ResultOf(t, key) ==
    IF t.chk = "present" THEN "skipped"
    ELSE IF ~Differs(t, key) THEN "skipped"
    ELSE IF t.up = "ok" THEN "translated"
    ELSE "failed"

\* the results dictionary
PageResults(ts) ==
    [c \in {"translated", "failed", "skipped"} |->
        Cardinality({k \in DOMAIN ts : ResultOf(ts[k], k) = c})]

\* where the loop goes after a page: the testing caps of simple_bulk
\* (`if offset < 100: continue`) and fixed_bulk (`if offset >= 200: break`)
AfterPage(v, off) ==
    IF v \in {"simple_bulk", "fixed_bulk"} /\ off >= TEST_LIMIT
    THEN "after" ELSE "loop"

\* an offset that follows the rows received
OffsetByRows(off) == off + Len(page)

\* offset += BATCH_SIZE
NextOffset(off) == off + BATCH_SIZE

\* a progress count that follows the page size
ProcessedByPageSize(v, pg) ==
    IF v \in Checkpointing THEN processed_foods + BATCH_SIZE ELSE processed_foods

\* self.processed_foods += len(foods)
NextProcessed(v, pg) ==
    IF v \in Checkpointing THEN processed_foods + Len(pg) ELSE processed_foods

\* save_progress: the file is overwritten with the counters
SaveProgress(v, file, rec) == IF v \in Checkpointing THEN rec ELSE file

\* the end of the loop body: the counters of the page, save_progress, the
\* next offset.  torn: a keyboard interrupt arrives inside save_progress,
\* after open(progress_file, 'w') has emptied the file and before json.dump
\* has written it out
PageEnd(torn) ==
    /\ \/ variant = "optimized" /\ pc = "saved"
       \/ variant # "optimized" /\ pc = "page" /\ AllDone
    /\ LET res == PageResults(tasks) IN
       IF variant = "ultra_fast"
       THEN /\ translated_count' = translated_count + res.translated
            /\ failed_count' = failed_count + res.failed
            /\ skipped_count' = skipped_count + res.skipped
            /\ tasks' = [k \in DOMAIN tasks |->
                            [tasks[k] EXCEPT !.cnt = ResultOf(tasks[k], k)]]
       ELSE UNCHANGED <<translated_count, failed_count, skipped_count, tasks>>
    /\ processed_foods' = NextProcessed(variant, page)
    /\ IF torn
       THEN /\ ckpt' = Corrupt
            /\ pc' \in InterruptEnds(variant, pc)
            /\ UNCHANGED <<ckptWrites, offset, pagesDone>>
       ELSE /\ ckpt' = SaveProgress(variant, ckpt,
                         [kind |-> "json", processed_foods |-> processed_foods',
                          translated_count |-> translated_count',
                          failed_count |-> failed_count',
                          skipped_count |-> skipped_count'])
            /\ ckptWrites' = IF variant \in Checkpointing THEN ckptWrites + 1
                             ELSE ckptWrites
            /\ offset' = NextOffset(offset)
            /\ pagesDone' = pagesDone + 1
            /\ pc' = AfterPage(variant, offset')
    /\ UNCHANGED <<foodsBefore, requested, previous, callVars, taskVars, proxyVars, clockVars, variant, nFoods, translations, runs, faults, total_foods, page,
                   resumedFrom, startOffset, lastFetch, fetched,
                   fetchFailed, attemptedRun, everAttempted, preexisting,
                   pageBase>>

EndPage == PageEnd(FALSE)

\* the keyboard interrupt that arrives while save_progress writes the file
InterruptSave == variant \in Checkpointing /\ PageEnd(TRUE)

\* an end of the run that leaves the file
KeepFile(v, file) == file

\* os.remove(self.progress_file)
Cleanup(v, file) == IF v \in Checkpointing THEN NoFile ELSE file

\* the success rate is printed without a guard in bulk_translate_foods and
\* with the wrong guard in fixed_bulk: a division by zero ends the script
RateFails(v) ==
    \/ v = "bulk_translate_foods" /\ translated_count + failed_count = 0
    \/ /\ v = "fixed_bulk"
       /\ translated_count + skipped_count + failed_count > 0
       /\ translated_count + failed_count = 0

\* after the loop: the final statistics and the removal of the checkpoint
Finish ==
    /\ pc = "after"
    /\ IF RateFails(variant)
       THEN pc' = "crashed" /\ ckpt' = ckpt
       ELSE pc' = "done" /\ ckpt' = Cleanup(variant, ckpt)
    /\ UNCHANGED <<foodsBefore, requested, previous, callVars, taskVars, proxyVars, clockVars, variant, nFoods, translations, runs, faults, translated_count,
                   failed_count, skipped_count, processed_foods, total_foods,
                   offset, page, tasks, resumedFrom, startOffset, lastFetch,
                   fetched, fetchFailed, pagesDone, ckptWrites, attemptedRun,
                   everAttempted, preexisting, pageBase>>

Next ==
    \/ TestApi
    \/ GetTotal
    \/ LoopExit
    \/ FetchPage
    \/ \E key \in DOMAIN tasks : Check(key)
    \/ CheckBatch
    \/ \E key \in DOMAIN tasks : Translate(key)
    \/ \E key \in DOMAIN tasks : Save(key)
    \/ SaveBatch
    \/ EndPage
    \/ Finish
    \/ Interrupt
    \/ InterruptSave
    \/ Restart

Spec == Init /\ [][Next]_vars


(***************************************************************************)
(* SpecCalls: the translate_text calls of one page, one step per await.    *)
(* A call is a chain of frames, one per value of retries; its record holds *)
(*   pc        "enter" before the frame's body, "post" with the request in *)
(*             flight, "sleep" in the backoff, "returned" at the end,      *)
(*             "raised" when an error left the call                        *)
(*   held      permits of translation_semaphore its frames hold            *)
(*   attempts  HTTP exchanges it has made                                  *)
(*   last      how its last HTTP exchange ended ("none" before the first)  *)
(*   sleeps    the backoffs it has slept, in half seconds                  *)
(*   result    the text it returned (NoText before)                        *)
(*   obtained  a translatedText came with the answer it returned on        *)
(***************************************************************************)
\* every script with a translate_text
Translators == Variants \cup {"mcp"}

\* scripts whose translate_text calls run one after the other
Serial == Sequential \cup {"mcp"}

\* translate_text_async wraps each frame in `async with translation_semaphore`
Enters(v) == v = "ultra_fast"

\* an except clause for the errors of the connection only
CaughtByTransport == {"transport_error", "timeout", "non200"}

\* the exchanges that `except Exception` (with the non-200 branch) takes care
\* of: every one that yields no parsed answer
Caught == {"transport_error", "timeout", "non200", "malformed"}

\* `if retries < MAX_RETRIES` / `if retries < 2` of the except clause
Retries(v, retries) == v \in Retrying /\ retries < MaxRetries(v)

\* the text of the except clause's `return text`
GiveUp(text) == text

NewCall(i) ==
    [text |-> Name(i), lang |-> LANGUAGES[1 + (i % Len(LANGUAGES))],
     retries |-> 0, pc |-> "enter", held |-> 0, attempts |-> 0,
     last |-> "none", sleeps |-> <<>>, result |-> NoText, obtained |-> FALSE]

InitCalls ==
    /\ variant \in Translators
    /\ calls = [i \in 1..PageCalls |-> NewCall(i)]
    /\ permits = MAX_CONCURRENT_TRANSLATIONS
    /\ coros = <<>>
    /\ sems = <<>>
    /\ running = NoOne
    /\ added = NoCounts
    /\ request = NoRequest
    /\ handler = "idle"
    /\ upstream = <<>>
    /\ body = NoBody
    /\ served = 0
    /\ now = 0
    /\ session = "none"
    /\ session_start_time = 0
    /\ progress = NoFile
    /\ spent = 0
    /\ nFoods = 0
    /\ translations = [k \in Keys |-> <<>>]
    /\ preexisting = {}
    /\ ckpt = NoFile
    /\ runs = 1
    /\ faults = 0
    /\ pc = "page"
    /\ translated_count = 0
    /\ failed_count = 0
    /\ skipped_count = 0
    /\ processed_foods = 0
    /\ total_foods = 0
    /\ offset = 0
    /\ page = <<>>
    /\ tasks = <<>>
    /\ resumedFrom = NoFile
    /\ startOffset = 0
    /\ lastFetch = "none"
    /\ fetched = {}
    /\ fetchFailed = FALSE
    /\ pagesDone = 0
    /\ ckptWrites = 0
    /\ attemptedRun = {}
    /\ everAttempted = {}
    /\ pageBase = [translated |-> 0, failed |-> 0, skipped |-> 0]
    /\ previous = NoRun
    /\ foodsBefore = nFoods
    /\ requested = {}

runVars ==
    <<variant, nFoods, translations, ckpt, runs, faults, pc, translated_count,
      failed_count, skipped_count, processed_foods, total_foods, offset, page,
      tasks, resumedFrom, startOffset, lastFetch, fetched, fetchFailed,
      pagesDone, ckptWrites, attemptedRun, everAttempted, preexisting,
      pageBase, previous, foodsBefore, requested>>

\* a frame that waits for a permit nobody can give it
Blocked(c) == calls[c].pc = "enter" /\ Enters(variant) /\ permits = 0

\* the frame starts; in ultra_fast it takes a permit first
Enter(c) ==
    /\ calls[c].pc = "enter"
    /\ variant \in Serial => \A d \in 1..(c - 1) : calls[d].pc = "returned"
    /\ ~Blocked(c)
    /\ IF Enters(variant)
       THEN /\ permits' = permits - 1
            /\ calls' = [calls EXCEPT ![c].pc = "post",
                                      ![c].held = calls[c].held + 1]
       ELSE /\ permits' = permits
            /\ calls' = [calls EXCEPT ![c].pc = "post"]
    /\ UNCHANGED <<runVars, taskVars, proxyVars, clockVars>>

\* the POST ends as r: the answer is returned, or the except clause retries
\* or gives up; returning leaves every `async with` of the chain
Exchange(c, r) ==
    /\ calls[c].pc = "post"
    /\ LET call == calls[c] IN
       IF r \in Parsed
       THEN /\ calls' = [calls EXCEPT ![c].pc = "returned",
                                      ![c].attempts = call.attempts + 1,
                                      ![c].last = r,
                                      ![c].result = Answer(call.text, call.lang, r),
                                      ![c].obtained = r \in WithText,
                                      ![c].held = 0]
            /\ permits' = permits + call.held
       ELSE IF r \notin Caught
       THEN /\ calls' = [calls EXCEPT ![c].pc = "raised",
                                      ![c].attempts = call.attempts + 1,
                                      ![c].last = r,
                                      ![c].held = 0]
            /\ permits' = permits + call.held
       ELSE IF Retries(variant, call.retries)
       THEN /\ calls' = [calls EXCEPT ![c].pc = "sleep",
                                      ![c].attempts = call.attempts + 1,
                                      ![c].last = r]
            /\ permits' = permits
       ELSE /\ calls' = [calls EXCEPT ![c].pc = "returned",
                                      ![c].attempts = call.attempts + 1,
                                      ![c].last = r,
                                      ![c].result = GiveUp(call.text),
                                      ![c].held = 0]
            /\ permits' = permits + call.held
    /\ UNCHANGED <<runVars, taskVars, proxyVars, clockVars>>

\* sleep(Backoff), then the recursive call with retries + 1
Wake(c) ==
    /\ calls[c].pc = "sleep"
    /\ calls' = [calls EXCEPT ![c].pc = "enter",
                              ![c].retries = calls[c].retries + 1,
                              ![c].sleeps = Append(calls[c].sleeps,
                                               Backoff(variant, calls[c].retries))]
    /\ UNCHANGED <<permits, runVars, taskVars, proxyVars, clockVars>>

NextCalls ==
    \/ \E c \in DOMAIN calls : Enter(c)
    \/ \E c \in DOMAIN calls, r \in RespKinds : Exchange(c, r)
    \/ \E c \in DOMAIN calls : Wake(c)

SpecCalls == InitCalls /\ [][NextCalls]_vars


(***************************************************************************)
(* SpecTasks: the coroutines that bulk_translate_foods, optimized and      *)
(* ultra_fast gather for one page, on the one thread of the event loop.    *)
(* A coroutine runs from one await to the next without another coroutine   *)
(* in between; `self.translated_count += 1` is taken apart into its load   *)
(* and its store.  The record of a coroutine holds                         *)
(*   pc       "new" before it has its permit, "check", "translate", "save" *)
(*            with that request in flight, "sleep" in a backoff, "gather"  *)
(*            waiting for its children, "load" / "store" inside an         *)
(*            increment, "done" at its end                                 *)
(*   retries  the retries argument of its translate_text frame             *)
(*   held     permits of its semaphore its frames hold                     *)
(*   seen     the counter value its increment has loaded                   *)
(*   out      how it ended: "present", "same" (the name came back),        *)
(*            "text", "saved", "refused" ("none" before)                   *)
(***************************************************************************)
Concurrent == {"bulk_translate_foods", "optimized", "ultra_fast"}

\* permits of the semaphore of process_batch of optimized (20 for pages of 100)
MAX_CONCURRENT_DB_OPERATIONS == 2

\* steps of an interleaving of two increments: for each coroutine the answer
\* to its upsert, the load and the store
RaceSteps == 6

PagePairs == (1..BATCH_SIZE) \X Langs

\* process_single_food(food) of optimized is coroutine <<food, 0>>
IsFood(t) == t[2] = 0

\* the semaphore of process_food_batch of bulk_translate_foods
PageSem == <<"page", 0>>

\* self.translation_semaphore of ultra_fast
TranslationSem == <<"translation", 0>>

\* the semaphore of process_batch of optimized
DbSem == <<"db", 0>>

\* the semaphore process_food_translations of optimized creates in each call
FoodSem(i) == <<"food", i>>

Semaphores(v) ==
    IF v = "bulk_translate_foods" THEN {PageSem}
    ELSE IF v = "ultra_fast" THEN {TranslationSem}
    ELSE {DbSem} \cup {FoodSem(i) : i \in 1..BATCH_SIZE}

SemSize(s) ==
    IF s = PageSem THEN MAX_CONCURRENT
    ELSE IF s = DbSem THEN MAX_CONCURRENT_DB_OPERATIONS
    ELSE MAX_CONCURRENT_TRANSLATIONS

\* the semaphore the coroutine enters
SemOf(v, t) ==
    IF v = "bulk_translate_foods" THEN PageSem
    ELSE IF v = "ultra_fast" THEN TranslationSem
    ELSE IF IsFood(t) THEN DbSem
    ELSE FoodSem(t[1])

\* the languages check_existing_translations of optimized reports per food
Existing(tbl) ==
    {k \in PagePairs :
        /\ HasRow(tbl, k)
        /\ FoodId(k[1]) \in InFilter({FoodId(i) : i \in 1..BATCH_SIZE})}

\* the coroutines of the page's gather: in ultra_fast the pairs whose check
\* found no row
CorosOf(v, tbl) ==
    IF v = "bulk_translate_foods" THEN PagePairs
    ELSE IF v = "ultra_fast" THEN {k \in PagePairs : ~HasRow(tbl, k)}
    ELSE PagePairs \cup {<<i, 0>> : i \in 1..BATCH_SIZE}

NewCoro == [pc |-> "new", retries |-> 0, held |-> 0, seen |-> 0, out |-> "none"]

\* the page at the start of its gather
StartOf(v, tbl) ==
    [coros |-> [t \in CorosOf(v, tbl) |-> NewCoro],
     sems |-> [s \in Semaphores(v) |-> SemSize(s)],
     running |-> NoOne,
     counts |-> NoCounts,
     added |-> NoCounts]

\* the state of the page as one record
Machine ==
    [coros |-> coros, sems |-> sems, running |-> running, counts |-> Counters,
     added |-> added]

\* threads: any coroutine may run at any time
Preempts(m, t) == TRUE

\* the event loop: inside a statement no other coroutine runs
Runs(m, t) == m.running \in {NoOne, t}

\* a request of the coroutine is in flight
Requests == {"check", "translate", "save"}

\* the coroutine can take its next step
CanStep(v, m, t) ==
    LET c == m.coros[t] IN
    /\ Runs(m, t)
    /\ CASE c.pc = "new" ->
              /\ m.sems[SemOf(v, t)] > 0
              \* limited_task: the permits go out in the order of the list
              /\ v = "bulk_translate_foods" =>
                     \A u \in DOMAIN m.coros :
                         Before(u, t) => m.coros[u].pc # "new"
              \* translate_single starts inside process_single_food
              /\ (v = "optimized" /\ ~IsFood(t)) =>
                     m.coros[<<t[1], 0>>].pc = "gather"
         [] c.pc = "gather" ->
              \A u \in DOMAIN m.coros :
                  (u[1] = t[1] /\ ~IsFood(u)) => m.coros[u].pc = "done"
         [] c.pc = "done" -> FALSE
         [] OTHER -> TRUE

\* the coroutine returns: every `async with` of its frames is left
Return(m, v, t, out) ==
    [m EXCEPT !.coros[t].pc = "done",
              !.coros[t].out = out,
              !.coros[t].held = 0,
              !.sems[SemOf(v, t)] = @ + m.coros[t].held]

\* `async with semaphore:` and the code up to the first request
AcquireOf(v, m, t) ==
    LET in == [m EXCEPT !.coros[t].held = @ + 1,
                        !.sems[SemOf(v, t)] = @ - 1]
    IN  IF v = "bulk_translate_foods" THEN [in EXCEPT !.coros[t].pc = "check"]
        ELSE IF v = "ultra_fast" THEN [in EXCEPT !.coros[t].pc = "translate"]
        ELSE IF IsFood(t) THEN [in EXCEPT !.coros[t].pc = "gather"]
        ELSE IF t \in Existing(translations) THEN Return(in, v, t, "present")
        ELSE [in EXCEPT !.coros[t].pc = "translate"]

\* the counter `+= 1` raises after the upsert
CounterOf(out) == IF out = "saved" THEN "translated" ELSE "failed"

\* the request of the coroutine is answered (ok) or fails
RespondOf(v, m, t, ok) ==
    LET c == m.coros[t] IN
    IF c.pc = "check"
    THEN IF ok /\ HasRow(translations, t) THEN Return(m, v, t, "present")
         ELSE [m EXCEPT !.coros[t].pc = "translate"]
    ELSE IF c.pc = "translate"
    THEN IF ok
         THEN IF v = "bulk_translate_foods"
              THEN [m EXCEPT !.coros[t].pc = "save", !.coros[t].out = "text"]
              ELSE Return(m, v, t, "text")
         ELSE IF Retries(v, c.retries) THEN [m EXCEPT !.coros[t].pc = "sleep"]
         ELSE Return(m, v, t, "same")
    ELSE [m EXCEPT !.coros[t].pc = "load",
                   !.coros[t].out = IF ok THEN "saved" ELSE "refused",
                   !.running = t]

\* the backoff is over: the recursive call, which in ultra_fast enters the
\* semaphore again
WakeOf(v, m, t) ==
    [m EXCEPT !.coros[t].retries = @ + 1,
              !.coros[t].pc = IF v = "ultra_fast" THEN "new" ELSE "translate"]

\* the increment reads the counter
LoadOf(v, m, t) ==
    [m EXCEPT !.coros[t].seen = m.counts[CounterOf(m.coros[t].out)],
              !.coros[t].pc = "store"]

\* the increment writes the counter; the coroutine returns
StoreOf(v, m, t) ==
    LET ctr == CounterOf(m.coros[t].out)
        put == [m EXCEPT !.counts[ctr] = m.coros[t].seen + 1,
                         !.added[ctr] = @ + 1,
                         !.running = NoOne]
    IN  Return(put, v, t, m.coros[t].out)

\* the next step of the coroutine
StepOf(v, m, t, ok) ==
    LET at == m.coros[t].pc IN
    IF at = "new" THEN AcquireOf(v, m, t)
    ELSE IF at \in Requests THEN RespondOf(v, m, t, ok)
    ELSE IF at = "sleep" THEN WakeOf(v, m, t)
    ELSE IF at = "load" THEN LoadOf(v, m, t)
    ELSE IF at = "store" THEN StoreOf(v, m, t)
    ELSE Return(m, v, t, m.coros[t].out)

InitTasks ==
    /\ variant \in Concurrent
    /\ \E pre \in {{}, {<<1, 1>>}} :
         /\ translations =
              [k \in Keys |-> IF k \in pre THEN <<<<k[1], "old">>>> ELSE <<>>]
         /\ preexisting = pre
    /\ coros = StartOf(variant, translations).coros
    /\ sems = StartOf(variant, translations).sems
    /\ running = NoOne
    /\ added = NoCounts
    /\ request = NoRequest
    /\ handler = "idle"
    /\ upstream = <<>>
    /\ body = NoBody
    /\ served = 0
    /\ now = 0
    /\ session = "none"
    /\ session_start_time = 0
    /\ progress = NoFile
    /\ spent = 0
    /\ calls = <<>>
    /\ permits = 0
    /\ nFoods = BATCH_SIZE
    /\ ckpt = NoFile
    /\ runs = 1
    /\ faults = 0
    /\ pc = "page"
    /\ translated_count = 0
    /\ failed_count = 0
    /\ skipped_count = 0
    /\ processed_foods = 0
    /\ total_foods = BATCH_SIZE
    /\ offset = 0
    /\ page = FoodsPage(0, BATCH_SIZE)
    /\ tasks = <<>>
    /\ resumedFrom = NoFile
    /\ startOffset = 0
    /\ lastFetch = "rows"
    /\ fetched = {}
    /\ fetchFailed = FALSE
    /\ pagesDone = 0
    /\ ckptWrites = 0
    /\ attemptedRun = {}
    /\ everAttempted = {}
    /\ pageBase = NoCounts
    /\ previous = NoRun
    /\ foodsBefore = nFoods
    /\ requested = {}

\* what a step of the page leaves alone
restVars ==
    <<variant, nFoods, translations, ckpt, runs, faults, processed_foods,
      total_foods, offset, page, tasks, resumedFrom, startOffset, lastFetch,
      fetched, fetchFailed, pagesDone, ckptWrites, attemptedRun,
      everAttempted, preexisting, pageBase, previous, foodsBefore,
      requested, callVars, proxyVars, clockVars>>

\* the page becomes the record m
Becomes(m) ==
    /\ coros' = m.coros
    /\ sems' = m.sems
    /\ running' = m.running
    /\ added' = m.added
    /\ translated_count' = m.counts.translated
    /\ failed_count' = m.counts.failed
    /\ skipped_count' = m.counts.skipped

Advance(t) ==
    /\ pc = "page"
    /\ CanStep(variant, Machine, t)
    /\ \E ok \in BOOLEAN : Becomes(StepOf(variant, Machine, t, ok))
    /\ UNCHANGED <<pc, restVars>>

Acquire(t) == coros[t].pc = "new" /\ Advance(t)

Respond(t) == coros[t].pc \in Requests /\ Advance(t)

WakeUp(t) == coros[t].pc = "sleep" /\ Advance(t)

Load(t) == coros[t].pc = "load" /\ Advance(t)

Store(t) == coros[t].pc = "store" /\ Advance(t)

FoodDone(t) == coros[t].pc = "gather" /\ Advance(t)

\* the coroutines that ended as out
Ended_as(out) ==
    {t \in DOMAIN coros : ~IsFood(t) /\ coros[t].out = out}

\* the gather is over: optimized counts the results one after the other;
\* ultra_fast saves the texts, counts the page in `results` and adds that to
\* the counters; bulk_translate_foods has counted in its coroutines
GatherOver ==
    /\ pc = "page"
    /\ running = NoOne
    /\ \A t \in DOMAIN coros : coros[t].pc = "done"
    /\ \E saved \in SUBSET Ended_as("text") :
         LET n == Cardinality(Ended_as("text"))
             plus ==
               IF variant = "optimized"
               THEN [translated |-> n,
                     failed |-> Cardinality(Ended_as("same")),
                     skipped |-> Cardinality(Ended_as("present"))]
               ELSE IF variant = "ultra_fast"
               THEN [translated |-> Cardinality(saved),
                     failed |-> n - Cardinality(saved),
                     skipped |-> Cardinality(Ended_as("same"))
                                 + Cardinality(PagePairs \ DOMAIN coros)]
               ELSE NoCounts
         IN  /\ variant = "optimized" => saved = Ended_as("text")
             /\ variant = "bulk_translate_foods" => saved = {}
             /\ translated_count' = translated_count + plus.translated
             /\ failed_count' = failed_count + plus.failed
             /\ skipped_count' = skipped_count + plus.skipped
             /\ added' = [c \in DOMAIN added |-> added[c] + plus[c]]
    /\ pc' = "saved"
    /\ UNCHANGED <<coros, sems, running, restVars>>

NextTasks ==
    \/ \E t \in DOMAIN coros : Acquire(t)
    \/ \E t \in DOMAIN coros : Respond(t)
    \/ \E t \in DOMAIN coros : WakeUp(t)
    \/ \E t \in DOMAIN coros : Load(t)
    \/ \E t \in DOMAIN coros : Store(t)
    \/ \E t \in DOMAIN coros : FoodDone(t)
    \/ GatherOver

SpecTasks == InitTasks /\ [][NextTasks]_vars


(***************************************************************************)
(* SpecProxy: the proxy server of translate_api.py.  It handles one        *)
(* request after the other: GET / or POST /translate with a JSON object.   *)
(* The two translation services are the environment.                       *)
(***************************************************************************)
\* requests the proxy handles in one behaviour
MaxRequests == 3

\* texts of the proxy are tuples of strings; the empty text is <<>>
Hello == <<"hello">>

QValues == {<<>>, Hello}

ValuesOf(key) ==
    IF key = "q" THEN QValues
    ELSE IF key = "source" THEN {<<"en">>}
    ELSE {<<"es">>}

\* the JSON objects a client posts: any of the three fields may be missing
Datas ==
    UNION {{d \in [K -> QValues \cup {<<"en">>, <<"es">>}] :
               \A key \in K : d[key] \in ValuesOf(key)} :
           K \in SUBSET {"q", "source", "target"}}

ProxyRequests ==
    {[path |-> "GET /"]} \cup {[path |-> "POST /translate", data |-> d] : d \in Datas}

\* data.get(key, default)
Get(d, key, default) == IF key \in DOMAIN d THEN d[key] ELSE default

\* text, source and target as the handler reads them
TextOf(req) == Get(req.data, "q", <<>>)

SourceOf(req) == Get(req.data, "source", <<"auto">>)

TargetOf(req) == Get(req.data, "target", <<"en">>)

\* how a call of a translation service ends: it raises (timeout, connection
\* error), answers with another status than 200, answers 200 with a body
\* that is no JSON object, with an object without the text, or with the text
UpstreamKinds ==
    {"timeout", "connection_error", "non200", "malformed", "nofield",
     "translated"}

\* the outcomes that raise an exception inside the handler
Raises == {"timeout", "connection_error", "malformed"}

\* an except clause for requests.RequestException only
ProxyCaughtRequests == {"timeout", "connection_error"}

\* `except Exception as e: return {"error": str(e)}`
ProxyCaught == Raises

\* the translation a service gives
Translated(text, target) == text \o target

\* the body with the text the service sent, or the input text without one
Success(req, r) ==
    [translatedText |-> IF r = "translated"
                        THEN Translated(TextOf(req), TargetOf(req))
                        ELSE TextOf(req),
     detectedLanguage |-> SourceOf(req)]

\* a call that raised: the except clause answers, or the error leaves the
\* handler
AfterRaise(r) ==
    IF r \in ProxyCaught
    THEN handler' = "answered" /\ body' = [error |-> r]
    ELSE handler' = "crashed" /\ body' = NoBody

InitProxy ==
    /\ request = NoRequest
    /\ handler = "idle"
    /\ upstream = <<>>
    /\ body = NoBody
    /\ served = 0
    /\ now = 0
    /\ session = "none"
    /\ session_start_time = 0
    /\ progress = NoFile
    /\ spent = 0
    /\ variant = "translate_api"
    /\ coros = <<>>
    /\ sems = <<>>
    /\ running = NoOne
    /\ added = NoCounts
    /\ calls = <<>>
    /\ permits = 0
    /\ nFoods = 0
    /\ translations = [k \in Keys |-> <<>>]
    /\ preexisting = {}
    /\ ckpt = NoFile
    /\ runs = 1
    /\ faults = 0
    /\ pc = "serving"
    /\ translated_count = 0
    /\ failed_count = 0
    /\ skipped_count = 0
    /\ processed_foods = 0
    /\ total_foods = 0
    /\ offset = 0
    /\ page = <<>>
    /\ tasks = <<>>
    /\ resumedFrom = NoFile
    /\ startOffset = 0
    /\ lastFetch = "none"
    /\ fetched = {}
    /\ fetchFailed = FALSE
    /\ pagesDone = 0
    /\ ckptWrites = 0
    /\ attemptedRun = {}
    /\ everAttempted = {}
    /\ pageBase = NoCounts
    /\ previous = NoRun
    /\ foodsBefore = nFoods
    /\ requested = {}

\* root, and translate_text up to the POST to the primary service
Receive(req) ==
    /\ handler = "idle"
    /\ served < MaxRequests
    /\ request' = req
    /\ upstream' = <<>>
    /\ IF req.path = "GET /"
       THEN /\ handler' = "answered"
            /\ body' = [message |-> "Lightweight Translation API",
                        status |-> "running"]
       ELSE IF TextOf(req) = <<>>
       THEN /\ handler' = "answered"
            /\ body' = [error |-> "No text provided"]
       ELSE /\ handler' = "primary"
            /\ body' = NoBody
    /\ UNCHANGED <<served, runVars, callVars, taskVars, clockVars>>

\* requests.post(libre_url) ends as r
Primary(r) ==
    /\ handler = "primary"
    /\ upstream' = Append(upstream, [service |-> "libretranslate", outcome |-> r])
    /\ IF r \in Raises THEN AfterRaise(r)
       ELSE IF r = "non200" THEN handler' = "secondary" /\ body' = NoBody
       ELSE handler' = "answered" /\ body' = Success(request, r)
    /\ UNCHANGED <<request, served, runVars, callVars, taskVars, clockVars>>

\* requests.get(mymemory_url) ends as r
Secondary(r) ==
    /\ handler = "secondary"
    /\ upstream' = Append(upstream, [service |-> "mymemory", outcome |-> r])
    /\ IF r \in Raises THEN AfterRaise(r)
       ELSE IF r = "non200"
       THEN /\ handler' = "answered"
            /\ body' = [error |-> "Translation services unavailable"]
       ELSE handler' = "answered" /\ body' = Success(request, r)
    /\ UNCHANGED <<request, served, runVars, callVars, taskVars, clockVars>>

\* the answer has been sent; the server waits for the next request
Sent ==
    /\ handler \in {"answered", "crashed"}
    /\ handler' = "idle"
    /\ request' = NoRequest
    /\ upstream' = <<>>
    /\ body' = NoBody
    /\ served' = served + 1
    /\ UNCHANGED <<runVars, callVars, taskVars, clockVars>>

NextProxy ==
    \/ \E req \in ProxyRequests : Receive(req)
    \/ \E r \in UpstreamKinds : Primary(r)
    \/ \E r \in UpstreamKinds : Secondary(r)
    \/ Sent

SpecProxy == InitProxy /\ [][NextProxy]_vars


(***************************************************************************)
(* SpecClock: the time tracking of enhanced and ultra_fast.  Time passes   *)
(* in ticks, whether a process is running or not; a process is started,    *)
(* writes its progress file at the end of a page, is stopped and started   *)
(* again.  The file holds the fields the time tracking reads and writes.   *)
(***************************************************************************)
\* the progress file with session_start_time, total_compute_time, timestamp
ProgressFile(start, total, stamp) ==
    [kind |-> "json", session_start_time |-> start,
     total_compute_time |-> total, timestamp |-> stamp]

\* progress.get('session_start_time', time.time()) of load_progress, after
\* __init__ has set self.session_start_time = time.time()
LoadedStart(t, file) ==
    IF IsRecord(file) THEN file.session_start_time ELSE t

\* total_compute_time of save_progress: the time since session_start_time
\* plus the total_compute_time of the file that exists
ComputeTime(t, start, file) ==
    (t - start) + (IF IsRecord(file) THEN file.total_compute_time ELSE 0)

InitClock ==
    /\ variant \in {"enhanced", "ultra_fast"}
    /\ now = 0
    /\ session = "running"
    /\ session_start_time = LoadedStart(0, NoFile)
    /\ progress = NoFile
    /\ spent = 0
    /\ request = NoRequest
    /\ handler = "idle"
    /\ upstream = <<>>
    /\ body = NoBody
    /\ served = 0
    /\ coros = <<>>
    /\ sems = <<>>
    /\ running = NoOne
    /\ added = NoCounts
    /\ calls = <<>>
    /\ permits = 0
    /\ nFoods = 0
    /\ translations = [k \in Keys |-> <<>>]
    /\ preexisting = {}
    /\ ckpt = NoFile
    /\ runs = 1
    /\ faults = 0
    /\ pc = "page"
    /\ translated_count = 0
    /\ failed_count = 0
    /\ skipped_count = 0
    /\ processed_foods = 0
    /\ total_foods = 0
    /\ offset = 0
    /\ page = <<>>
    /\ tasks = <<>>
    /\ resumedFrom = NoFile
    /\ startOffset = 0
    /\ lastFetch = "none"
    /\ fetched = {}
    /\ fetchFailed = FALSE
    /\ pagesDone = 0
    /\ ckptWrites = 0
    /\ attemptedRun = {}
    /\ everAttempted = {}
    /\ pageBase = NoCounts
    /\ previous = NoRun
    /\ foodsBefore = nFoods
    /\ requested = {}

\* what the time tracking leaves alone
otherVars == <<runVars, callVars, taskVars, proxyVars>>

\* a tick passes
Tick ==
    /\ now < MaxTime
    /\ now' = now + 1
    /\ spent' = IF session = "running" THEN spent + 1 ELSE spent
    /\ UNCHANGED <<session, session_start_time, progress, otherVars>>

\* save_progress at the end of a page; a page takes time
SaveClock ==
    /\ session = "running"
    /\ IsRecord(progress) => progress.timestamp < now
    /\ progress' = ProgressFile(session_start_time,
                                ComputeTime(now, session_start_time, progress),
                                now)
    /\ UNCHANGED <<now, session, session_start_time, spent, otherVars>>

\* the process is interrupted
StopClock ==
    /\ session = "running"
    /\ session' = "stopped"
    /\ UNCHANGED <<now, session_start_time, progress, spent, otherVars>>

\* the script is started again: __init__ and load_progress
StartClock ==
    /\ session = "stopped"
    /\ session' = "running"
    /\ session_start_time' = LoadedStart(now, progress)
    /\ UNCHANGED <<now, progress, spent, otherVars>>

NextClock ==
    \/ Tick
    \/ SaveClock
    \/ StopClock
    \/ StartClock

SpecClock == InitClock /\ [][NextClock]_vars


(***************************************************************************)
(* Properties of Spec.                                                     *)
(***************************************************************************)
\* the scripts whose per-item step C1 describes
PerItem ==
    {"simple_bulk", "fixed_bulk", "simple_optimized", "enhanced", "ultra_fast",
     "bulk_translate_foods"}

\* C1: for every pair of a page, a translate call has been made only after the
\* existence check of the pair answered that no row exists, and an upsert has
\* been issued only after translate_text returned a text that differs from
\* the food's name.
C1_CheckTranslateUpsert ==
    variant \in PerItem =>
        \A k \in DOMAIN tasks :
            /\ tasks[k].tr # NoText => tasks[k].chk = "absent"
            /\ tasks[k].up # "todo" =>
                   /\ tasks[k].tr # NoText
                   /\ tasks[k].tr # Name(k[1])

\* a page on which one pair was skipped after its check and another was
\* checked, translated and saved
C1_Witness ==
    /\ variant \in PerItem
    /\ \E k \in DOMAIN tasks : tasks[k].chk = "present" /\ tasks[k].tr = NoText
    /\ \E k \in DOMAIN tasks :
           /\ tasks[k].chk = "absent"
           /\ tasks[k].tr = Translation(Name(k[1]), LANGUAGES[k[2]])
           /\ tasks[k].up = "ok"

\* the page loop is over
LoopOver == pc \in {"after", "done", "crashed"}

\* the offset has moved by the page size once per completed page
OffsetByPages == offset = startOffset + BATCH_SIZE * pagesDone

\* C2 as stated: the offset rises by the page size per non-empty page and the
\* loop ends only when a fetched page comes back empty (a failed fetch hands
\* the loop an empty page too).
C2_EndsOnEmptyPage ==
    /\ OffsetByPages
    /\ LoopOver => lastFetch \in {"empty", "failed"}

\* C2, amended: the offset rises by the page size per non-empty page, and the
\* loop ends when a fetched page comes back empty, when the offset has
\* reached total_foods (every script but simple_bulk), or when simple_bulk or
\* fixed_bulk has reached its testing cap.
C2_LoopEnds ==
    /\ OffsetByPages
    /\ LoopOver =>
           \/ lastFetch \in {"empty", "failed"}
           \/ variant # "simple_bulk" /\ offset >= total_foods
           \/ /\ variant \in {"simple_bulk", "fixed_bulk"}
              /\ pagesDone > 0
              /\ offset >= TEST_LIMIT

\* a loop that ended on its condition after a short last page
C2_Witness ==
    /\ LoopOver
    /\ lastFetch = "rows"
    /\ Len(page) < BATCH_SIZE
    /\ pagesDone > 1
    /\ offset >= total_foods

\* C3: a run of simple_optimized that started without a checkpoint and whose
\* page fetches all succeeded has performed the per-item step for every row
\* of the foods table and every language when it reports completion.
C3_ProcessesAllFoods ==
    (/\ variant = "simple_optimized"
     /\ pc = "done"
     /\ resumedFrom = NoFile
     /\ ~fetchFailed)
    => \A i \in 1..nFoods, l \in Langs : <<i, l>> \in attemptedRun

\* the counters a checkpoint record holds
Stored(rec) ==
    [translated |-> rec.translated_count, failed |-> rec.failed_count,
     skipped |-> rec.skipped_count]

C5_CheckpointRemoved ==
    (variant \in Checkpointing /\ pc = "done") => ckpt = NoFile

\* a completed run that had written the checkpoint for at least two pages
C5_Witness ==
    /\ variant \in Checkpointing
    /\ pc = "done"
    /\ ckptWrites > 1
    /\ lastFetch = "rows"
    /\ ckpt = NoFile

\* every language of every food the record counts has been attempted
AllAttempted(rec) ==
    \A i \in 1..rec.processed_foods, l \in Langs : <<i, l>> \in everAttempted

\* a step that completes a page
PageStep == pagesDone' = pagesDone + 1

\* the state of the checkpoint: what the file counts has been attempted
CheckpointSound ==
    variant \in Checkpointing =>
        /\ ckptWrites = pagesDone
        /\ IsRecord(ckpt) => AllAttempted(ckpt)

\* the steps of the checkpoint: written when a page completes, and only then
CheckpointStep ==
    variant \in Checkpointing =>
        /\ PageStep =>
               /\ AllDone
               /\ IsRecord(ckpt')
               /\ ckpt'.processed_foods = processed_foods + Len(page)
               /\ ckpt'.processed_foods = processed_foods'
               /\ Stored(ckpt') = Counters'
        /\ (ckpt' # ckpt /\ IsRecord(ckpt')) => PageStep

\* C6: the checkpoint is written in exactly the steps that complete a
\* non-empty page, when every pair of the page has been attempted, with
\* processed_foods raised by the length of the page; the processed_foods it
\* stores counts no food of which a language has not been attempted.
C6_CheckpointPerPage == []CheckpointSound /\ [][CheckpointStep]_vars

\* the checkpoint written after a short second page
C6_Witness ==
    /\ variant \in Checkpointing
    /\ IsRecord(ckpt)
    /\ ckptWrites = 2
    /\ Len(page) < BATCH_SIZE
    /\ ckpt.processed_foods = nFoods

\* C7: ingredient_translations holds at most one row per
\* (ingredient_id, locale), whatever runs were made, interrupted and resumed.
C7_OneRowPerPair ==
    \A k \in Keys : Len(translations[k]) <= 1

\* a row that was there when the run started has been upserted again
C7_Witness ==
    \E k \in DOMAIN tasks :
        /\ k \in preexisting
        /\ tasks[k].up = "ok"
        /\ Len(translations[k]) = 1

\* the failed_count the current page has added
FailedOfPage == failed_count - pageBase.failed

\* the pairs of the page counted as failed account for the rise of failed_count
FailedCounted ==
    FailedOfPage = Cardinality({k \in DOMAIN tasks : tasks[k].cnt = "failed"})

\* C10 as stated: in the retrying scripts a pair whose translation ran out of
\* retries gets no upsert and is not counted in failed_count.
C10_ExhaustedIsNoOp ==
    variant \in Retrying =>
        /\ FailedCounted
        /\ \A k \in DOMAIN tasks :
               tasks[k].exh => tasks[k].up = "todo" /\ tasks[k].cnt # "failed"

\* C10, amended: in the retrying scripts a pair whose translation ran out of
\* retries gets no upsert; simple_optimized, enhanced and ultra_fast do not
\* count it in failed_count, optimized counts it there when it counts the
\* results of the page.
C10_ExhaustedNoUpsert ==
    variant \in Retrying =>
        /\ FailedCounted
        /\ \A k \in DOMAIN tasks :
               tasks[k].exh =>
                   /\ tasks[k].up = "todo"
                   /\ variant # "optimized" => tasks[k].cnt # "failed"
                   /\ variant = "optimized" => tasks[k].cnt \in {"none", "failed"}

\* a completed page of optimized with a pair whose translation ran out of
\* retries: no upsert, one more failed translation
C10_Witness ==
    /\ variant = "optimized"
    /\ pagesDone > 0
    /\ \E k \in DOMAIN tasks :
           /\ tasks[k].exh
           /\ tasks[k].up = "todo"
           /\ tasks[k].cnt = "failed"
           /\ failed_count > pageBase.failed


(***************************************************************************)
(* Properties of SpecCalls.                                                *)
(***************************************************************************)
\* the HTTP attempts C8 allows one call
StatedAttempts(v) ==
    IF v \in {"optimized", "simple_optimized", "enhanced"} THEN MAX_RETRIES + 1
    ELSE IF v = "ultra_fast" THEN 3
    ELSE 1

\* the call is over
Over(c) == calls[c].pc \in {"returned", "raised"}

\* calls are unfinished and none of them can take a step
Stuck ==
    /\ \E c \in DOMAIN calls : ~Over(c)
    /\ \A c \in DOMAIN calls : ~Over(c) => Blocked(c)

\* C8: a call of translate_text makes at most the stated number of HTTP
\* attempts (4 in optimized, simple_optimized and enhanced, 3 in ultra_fast,
\* 1 in the others) and always terminates: the calls never come to a state
\* in which unfinished calls remain and none of them can go on.
C8_BoundedAndTerminates ==
    /\ \A c \in DOMAIN calls : calls[c].attempts <= StatedAttempts(variant)
    /\ ~Stuck

\* C9: translate_text hands no error to its caller; the text it returns is
\* the translatedText of the answer, and the input text itself whenever the
\* exchange brought no translatedText (transport error, timeout, non-200,
\* unparsable body, answer without the field).
C9_ReturnsText ==
    \A c \in DOMAIN calls :
        /\ calls[c].pc # "raised"
        /\ calls[c].pc = "returned" =>
               /\ calls[c].result \in
                      {calls[c].text, Translation(calls[c].text, calls[c].lang)}
               /\ ~calls[c].obtained => calls[c].result = calls[c].text
               /\ calls[c].last \notin WithText => ~calls[c].obtained

\* one call has returned the input after an unparsable answer, another after
\* an answer without the field
C9_Witness ==
    \E c, d \in DOMAIN calls :
        /\ calls[c].pc = "returned"
        /\ calls[c].last = "malformed"
        /\ calls[c].result = calls[c].text
        /\ calls[d].pc = "returned"
        /\ calls[d].last = "nofield"
        /\ calls[d].result = calls[d].text

(***************************************************************************)
(* Failures of remote calls.                                               *)
(***************************************************************************)
\* a call for the pair failed: the upsert was refused, or translate_text came
\* back with the food's name
ItemFailed(t, key) == t.up = "fail" \/ (t.tr # NoText /\ t.tr = Name(key[1]))

\* C11: no failed remote call ends the work of a run: after a failed page
\* fetch the page loop is still going, and after a failed call for a pair the
\* process has neither returned early nor died.
C11_NoCallFatal ==
    /\ lastFetch = "failed" => ~LoopOver
    /\ (\E k \in DOMAIN tasks : ItemFailed(tasks[k], k)) =>
           pc \notin {"aborted", "crashed"}

(***************************************************************************)
(* Keyboard interrupts.                                                    *)
(***************************************************************************)
\* the scripts with an `except KeyboardInterrupt` clause around the page loop
Catching == {"enhanced", "ultra_fast"}

\* a keyboard interrupt arrives during the page loop
InterruptStep == pc \in InLoop /\ pc' \in {"interrupted", "killed"}

\* the counters at the end of the last completed page
Boundary == IF pc = "page" THEN pageBase ELSE Counters

\* the interrupt is answered with the partial statistics and leaves the file,
\* which holds the last page boundary; the next start takes it up there
InterruptKeeps ==
    variant \in Catching =>
        /\ InterruptStep =>
               /\ pc' = "interrupted"
               /\ ckpt' = ckpt
               /\ (pagesDone > 0 \/ IsRecord(resumedFrom)) => IsRecord(ckpt')
               /\ IsRecord(ckpt') =>
                      /\ ckpt'.processed_foods = processed_foods
                      /\ Stored(ckpt') = Boundary
        /\ (pc \in {"interrupted", "killed"} /\ runs' = runs + 1
                /\ IsRecord(ckpt)) =>
               /\ processed_foods' = ckpt.processed_foods
               /\ Counters' = Stored(ckpt)

\* C16: a keyboard interrupt during the page loop of enhanced or ultra_fast
\* makes the run print its partial statistics and exit without deleting or
\* touching the checkpoint file; the file holds the counters of the last
\* fully completed page, and the next start resumes from them.
C16_InterruptPrintsAndKeeps == [][InterruptKeeps]_vars

(***************************************************************************)
(* The counters a run reports.                                             *)
(***************************************************************************)
\* the scripts that print skipped_count as `Skipped (already exists)`
Reporting ==
    {"fixed_bulk", "simple_optimized", "optimized", "enhanced", "ultra_fast"}

\* the pairs of the page counted in skipped_count
SkippedPairs == {k \in DOMAIN tasks : tasks[k].cnt = "skipped"}

\* the pairs of the page whose existence check found a row
FoundPairs == {k \in DOMAIN tasks : tasks[k].chk = "present"}

\* the page fetched last has been completed
PageCompleted == page # <<>> /\ page[1] # offset + 1

\* C17: the skipped_count a run reports counts exactly the pairs whose
\* existence check found a row: page by page it rises by the number of such
\* pairs, and no other pair is counted in it.
C17_SkippedIsExisting ==
    variant \in Reporting =>
        /\ skipped_count - pageBase.skipped = Cardinality(SkippedPairs)
        /\ SkippedPairs \subseteq FoundPairs
        /\ PageCompleted => FoundPairs \subseteq SkippedPairs

(***************************************************************************)
(* Running a script again.                                                 *)
(***************************************************************************)
\* the process follows one that ran to its end, and no request of either
\* failed: every existence check was answered and every translation request
\* returned the translation of its text
RerunUndisturbed == previous.done /\ faults = 0

\* pairs that had a row when the previous process ended
StoredBefore == {k \in Keys : HasRow(previous.table, k)}

\* pairs of the page for which an upsert has been issued
Upserted == {k \in DOMAIN tasks : tasks[k].up # "todo"}

\* C18: running a script again is idempotent on ingredient_translations:
\* the second run issues no upsert for a pair that the first run left stored,
\* and the table stays as the first run left it.
C18_RerunIdempotent ==
    RerunUndisturbed =>
        /\ Upserted \cap StoredBefore = {}
        /\ translations = previous.table

(***************************************************************************)
(* The foods table.                                                        *)
(***************************************************************************)
\* the requests sent to the foods table so far
FoodsRequests == {r \in requested : r[1] = "foods"}

\* C19: the foods table is read-only: every request a script sends to it is
\* a GET, and its rows are the same before and after any run, whether the
\* run ended by itself or was interrupted.
C19_FoodsReadOnly ==
    /\ \A r \in FoodsRequests : r[2] = "GET"
    /\ nFoods = foodsBefore

\* a run that fetched a page and upserted a translation was interrupted
C19_Witness ==
    /\ pc \in {"interrupted", "killed"}
    /\ fetched # {}
    /\ <<"foods", "GET">> \in requested
    /\ <<"ingredient_translations", "POST">> \in requested
    /\ nFoods > 0

(***************************************************************************)
(* The translation semaphore of ultra_fast.                                *)
(***************************************************************************)
\* calls that hold permits of translation_semaphore
Holders == {c \in DOMAIN calls : calls[c].held > 0}

\* calls that wait at `async with self.translation_semaphore`
Waiters == {c \in DOMAIN calls : calls[c].pc = "enter"}

\* every permit is held by a call that waits to acquire one more
AllHeldByWaiters == permits = 0 /\ Holders # {} /\ Holders \subseteq Waiters

\* C20: in ultra_fast the translate_text_async tasks of a page all return,
\* whatever the translation endpoint answers: the page never comes to a
\* state in which every permit of translation_semaphore is held by a task
\* that is itself waiting to acquire the semaphore again for a retry.
C20_NoPermitDeadlock ==
    variant = "ultra_fast" => ~AllHeldByWaiters

(***************************************************************************)
(* The removal of the checkpoint.                                          *)
(***************************************************************************)
\* the step removes a checkpoint file that save_progress wrote
Deletes == IsRecord(ckpt) /\ ckpt' = NoFile

\* foods remain unprocessed
Remaining == processed_foods < total_foods

\* C21: a checkpointing script never deletes its checkpoint file while
\* foods remain unprocessed (processed_foods < total_foods); a page fetch
\* that fails does not lead to the deletion of the checkpoint.
C21_KeepsCheckpoint == [][Deletes => ~Remaining]_vars

(***************************************************************************)
(* Rows that existed before the run.                                       *)
(***************************************************************************)
\* ingredient_translations as it was when the running process started
StartTable ==
    IF runs = 1
    THEN [k \in Keys |-> IF k \in preexisting THEN <<<<k[1], "old">>>> ELSE <<>>]
    ELSE previous.table

\* C22: a run never overwrites a translation that already existed: for a
\* pair that had a row when the run started it issues no upsert, and the
\* row keeps its name, whatever the existence check request returned.
C22_NeverOverwrites ==
    \A k \in preexisting :
        /\ k \in DOMAIN tasks => tasks[k].up = "todo"
        /\ translations[k] = StartTable[k]

(***************************************************************************)
(* The counters of optimized.                                              *)
(***************************************************************************)
\* what save_translations_batch returned for the page: the rows of the POST
\* when the data API accepted it, 0 otherwise
SavedCount == Cardinality({k \in DOMAIN tasks : tasks[k].up = "ok"})

\* C23: in optimized translated_count equals the number of rows the data
\* API accepted: over a page it grows by exactly the value that
\* save_translations_batch returned for the page.
C23_TranslatedIsSaved ==
    (variant = "optimized" /\ pc = "saved") =>
        translated_count - pageBase.translated = SavedCount

(***************************************************************************)
(* The counters of enhanced and ultra_fast.                                *)
(***************************************************************************)
\* the pairs counted so far, in any of the three counters
CountedPairs(c) == c.translated_count + c.failed_count + c.skipped_count

\* what the three counters have risen by since the page was fetched
CountedOfPage ==
    (translated_count - pageBase.translated)
    + (failed_count - pageBase.failed)
    + (skipped_count - pageBase.skipped)

\* C24: in enhanced and ultra_fast every pair of a processed page is counted
\* in exactly one of translated_count, failed_count and skipped_count: a
\* completed page has raised the counters by the number of its pairs, and
\* the checkpoint of a run started without one always holds
\* translated_count + failed_count + skipped_count
\*   = processed_foods * |LANGUAGES|.
C24_EveryPairCountedOnce ==
    variant \in {"enhanced", "ultra_fast"} =>
        /\ PageCompleted => CountedOfPage = Len(page) * Len(LANGUAGES)
        /\ (IsRecord(ckpt) /\ resumedFrom = NoFile) =>
               CountedPairs(ckpt) = ckpt.processed_foods * Len(LANGUAGES)

\* a run of ultra_fast started without a checkpoint has written one that
\* holds translated, failed and skipped pairs
C24_Witness ==
    /\ variant = "ultra_fast"
    /\ resumedFrom = NoFile
    /\ IsRecord(ckpt)
    /\ ckptWrites > 0
    /\ ckpt.translated_count > 0
    /\ ckpt.failed_count > 0
    /\ ckpt.skipped_count > 0

(***************************************************************************)
(* The fetch offset and the stored progress.                               *)
(***************************************************************************)
\* the body of the page loop starts or is being executed
InBody == (pc = "loop" /\ LoopCond(variant)) \/ pc \in {"page", "saved"}

\* the rows first .. last of the foods table
Rows(first, last) == {i \in 1..MaxFoods : first <= i /\ i <= last}

\* C25: in every checkpointing script the fetch offset equals
\* processed_foods whenever the body of the page loop starts.  A restarted
\* run therefore goes on where the checkpoint stands: the page it processes
\* begins with the first row behind processed_foods, and the rows it has
\* fetched are the rows from the stored progress up to the end of that page,
\* none skipped and none repeated.
C25_OffsetIsProcessed ==
    (variant \in Checkpointing /\ InBody) =>
        /\ offset = processed_foods
        /\ pc \in {"page", "saved"} =>
               /\ page = FoodsPage(processed_foods, BATCH_SIZE)
               /\ fetched = Rows(startOffset + 1, processed_foods + Len(page))
        /\ IsRecord(resumedFrom) => startOffset = resumedFrom.processed_foods

\* a run interrupted after a checkpoint write has been started again and
\* processes the page behind the stored progress
C25_Witness ==
    /\ variant \in Checkpointing
    /\ runs = 2
    /\ ~previous.done
    /\ IsRecord(resumedFrom)
    /\ resumedFrom.processed_foods > 0
    /\ pc = "page"
    /\ page[1] = resumedFrom.processed_foods + 1

(***************************************************************************)
(* Properties of SpecClock.                                                *)
(***************************************************************************)
\* the step writes the progress file
WritesProgress == progress' # progress /\ IsRecord(progress')

\* C26: the total_compute_time that save_progress of enhanced and
\* ultra_fast writes is the time spent running, across restarts: at every
\* write it equals the ticks that passed while a process was running, each
\* counted once.
C26_ComputeTimeTracked ==
    [][WritesProgress => progress'.total_compute_time = spent']_vars

(***************************************************************************)
(* The sleeps between the attempts of a call.                              *)
(***************************************************************************)
\* the scripts whose backoff C27 describes
Doubling == {"optimized", "simple_optimized", "enhanced"}

\* C27: translate_text of optimized, simple_optimized and enhanced waits
\* with exponential backoff: the sleep before retry number k + 1 is twice
\* the sleep before retry number k.
C27_BackoffDoubles ==
    variant \in Doubling =>
        \A c \in DOMAIN calls :
            \A k \in 1..(Len(calls[c].sleeps) - 1) :
                calls[c].sleeps[k + 1] = 2 * calls[c].sleeps[k]

(***************************************************************************)
(* A checkpoint file that does not parse.                                  *)
(***************************************************************************)
\* the file is there and is no JSON object
Unparsable(file) == file.kind \in {"corrupt", "array"}

\* the process has not written or removed the file it found at startup
FileAsFound == pc \in Live /\ ckptWrites = 0

\* C28: when the checkpoint file exists at startup and cannot be parsed as
\* a JSON object, load_progress does not abort the program and changes no
\* counter: processed_foods, translated_count, failed_count and
\* skipped_count are 0 until the first page, and the run starts at offset 0.
C28_UnparsableIgnored ==
    variant \in Checkpointing =>
        /\ (Unparsable(ckpt) /\ lastFetch = "none") => pc # "crashed"
        /\ (Unparsable(ckpt) /\ FileAsFound) =>
               /\ resumedFrom = NoFile
               /\ startOffset = 0
               /\ lastFetch = "none" =>
                      /\ processed_foods = 0
                      /\ Counters = NoCounts
                      /\ offset = 0

\* a process started again with a file that is JSON but no object processes
\* the first page of the table
C28_Witness ==
    /\ variant \in Checkpointing
    /\ runs = 2
    /\ ckpt = NotObject
    /\ FileAsFound
    /\ pc = "page"
    /\ page[1] = 1
    /\ pageBase = NoCounts

(***************************************************************************)
(* Properties of SpecTasks.                                                *)
(***************************************************************************)
\* the translation requests in flight
InFlight == {t \in DOMAIN coros : coros[t].pc = "translate"}

\* the per-pair tasks of bulk_translate_foods inside limited_task's semaphore
RunningTasks == {t \in DOMAIN coros : coros[t].held > 0}

\* C12: at every moment the translation requests in flight are at most
\* MAX_CONCURRENT_TRANSLATIONS in optimized and in ultra_fast, and the
\* per-pair tasks running in bulk_translate_foods are at most MAX_CONCURRENT.
C12_InFlightBounded ==
    /\ variant \in {"optimized", "ultra_fast"} =>
           Cardinality(InFlight) <= MAX_CONCURRENT_TRANSLATIONS
    /\ variant = "bulk_translate_foods" =>
           Cardinality(RunningTasks) <= MAX_CONCURRENT

\* the part of C12 that the semaphores do enforce: ultra_fast and
\* bulk_translate_foods keep their bounds
BoundsKept ==
    /\ variant = "ultra_fast" =>
           Cardinality(InFlight) <= MAX_CONCURRENT_TRANSLATIONS
    /\ variant = "bulk_translate_foods" =>
           Cardinality(RunningTasks) <= MAX_CONCURRENT

\* a counter is smaller than what the executed increments added to it
Lost(m) == \E c \in DOMAIN m.counts : m.counts[c] < m.added[c]

\* the coroutines whose upsert is in flight: their next statement is an
\* increment
Saving == {t \in DOMAIN coros : coros[t].pc = "save"}

\* the orders in which the coroutines ts can be given their next steps
Interleavings(ts) == [1..RaceSteps -> ts]

\* the page after the coroutines took their steps in the order sched, every
\* upsert answered with success; a coroutine that cannot step is passed over
RECURSIVE Play(_, _, _)
Play(v, m, sched) ==
    IF sched = <<>> THEN m
    ELSE LET t == Head(sched) IN
         Play(v, IF CanStep(v, m, t) THEN StepOf(v, m, t, TRUE) ELSE m,
              Tail(sched))

\* C13 as stated: the increments of concurrently running tasks race: when
\* the upserts of two coroutines of bulk_translate_foods are in flight, an
\* interleaving of their next steps exists after which a counter is smaller
\* than the number of increments executed.
C13_IncrementLost ==
    (variant = "bulk_translate_foods" /\ Cardinality(Saving) >= 2) =>
        \E sched \in Interleavings(Saving) :
            Lost(Play(variant, Machine, sched))

\* C13, amended: the counters are incremented without a lock, but no
\* increment is lost: in bulk_translate_foods the load and the store of an
\* increment run with no other coroutine in between, in optimized and
\* ultra_fast the coroutine that awaited the gather increments after every
\* task has ended; each counter equals the sum of the executed increments.
C13_NoIncrementLost ==
    /\ ~Lost(Machine)
    /\ pc = "saved" => \A t \in DOMAIN coros : coros[t].pc = "done"

\* a coroutine is between the load and the store of its increment, after
\* another coroutine has incremented, while the upsert of a third coroutine
\* is in flight
C13_Witness ==
    /\ variant = "bulk_translate_foods"
    /\ \E t, u \in DOMAIN coros :
           /\ coros[t].pc = "store"
           /\ coros[t].seen > 0
           /\ coros[u].pc = "save"

(***************************************************************************)
(* Properties of SpecProxy.                                                *)
(***************************************************************************)
\* the services called for the request, in order
Called == [n \in 1..Len(upstream) |-> upstream[n].service]

\* the primary service was called and delivered no translation
PrimaryFailed ==
    /\ Len(upstream) > 0
    /\ upstream[1].outcome \in {"timeout", "connection_error", "non200"}

\* C14: for a POST /translate with non-empty q, whenever the primary service
\* failed (non-200 answer, timeout or connection error) the answer is given
\* only after the secondary service has been queried, and an error is
\* reported only after the secondary service has failed too.
C14_FallbackOnFailure ==
    (handler = "answered" /\ PrimaryFailed) =>
        /\ Called = <<"libretranslate", "mymemory">>
        /\ "error" \in DOMAIN body =>
               upstream[2].outcome \notin {"nofield", "translated"}

\* C15: the proxy answers every request: no error leaves a handler; GET /
\* reports status running whatever the services do; POST /translate yields a
\* body with exactly translatedText and detectedLanguage or a body with
\* exactly error; with q empty or missing it yields the error body and
\* calls no service.
C15_AlwaysAnswers ==
    /\ handler # "crashed"
    /\ handler = "answered" =>
           IF request.path = "GET /"
           THEN body.status = "running" /\ upstream = <<>>
           ELSE /\ \/ DOMAIN body = {"translatedText", "detectedLanguage"}
                   \/ DOMAIN body = {"error"}
                /\ TextOf(request) = <<>> =>
                       /\ DOMAIN body = {"error"}
                       /\ upstream = <<>>

\* after a first request, a POST without q has been answered with the error
\* body and no service was called
C15_Witness ==
    /\ served > 0
    /\ handler = "answered"
    /\ request.path = "POST /translate"
    /\ "q" \notin DOMAIN request.data
    /\ DOMAIN body = {"error"}
    /\ upstream = <<>>

=============================================================================
